---- MODULE Spec2Model ----
(***************************************************************************)
(* Model of src/json-schema-form/utilities/utility-functions.ts:           *)
(* resolveSchemaReference, mapLayout, forOwnDeep and isInputRequired.      *)
(*                                                                         *)
(* JSON values are records [t, k, v, p]: t is the JavaScript type tag,     *)
(* k the own keys of an object in insertion order, v the values of an      *)
(* object or the elements of an array, p the text of a primitive.          *)
(* Strings are sequences of tokens; "/" is a token of its own, so that     *)
(* pointer strings can be compiled, sliced, split and joined.              *)
(*                                                                         *)
(* The functions reach each other and the http client through 'this'; the  *)
(* model takes the binding in which 'this' provides them. A call runs to   *)
(* completion before anything else happens (one JavaScript thread); only   *)
(* the callback of an http.get runs later, as a step of its own.           *)
(***************************************************************************)
EXTENDS Integers, Sequences, FiniteSets, TLC

VARIABLES
  schema, cache, pending, computed, ncalls, last,
          layout, visitor, mapped,
          wdoc, wargs, walked,
          rschema, rpointer, required

vars == <<schema, cache, pending, computed, ncalls, last,
          layout, visitor, mapped, wdoc, wargs, walked,
          rschema, rpointer, required>>

resolverVars == <<schema, cache, pending, computed, ncalls, last>>
layoutVars == <<layout, visitor, mapped>>
walkVars == <<wdoc, wargs, walked>>
requiredVars == <<rschema, rpointer, required>>

\* ---------------------------------------------------------------- bounds
MaxCalls == 3
MaxDepth == 5

\* ------------------------------------------------------------ JSON values
Undef == [t |-> "undefined", k |-> <<>>, v |-> <<>>, p |-> <<>>]
Null == [t |-> "null", k |-> <<>>, v |-> <<>>, p |-> <<>>]
Str(s) == [t |-> "string", k |-> <<>>, v |-> <<>>, p |-> s]
Num(s) == [t |-> "number", k |-> <<>>, v |-> <<>>, p |-> <<s>>]
Arr(vs) == [t |-> "array", k |-> <<>>, v |-> vs, p |-> <<>>]
Obj(ks, vs) == [t |-> "object", k |-> ks, v |-> vs, p |-> <<>>]

isObject(x) == x.t = "object"
isArray(x) == x.t = "array"
isString(x) == x.t = "string"

KeyIndex(x, key) ==
  IF \E i \in 1..Len(x.k) : x.k[i] = key
  THEN CHOOSE i \in 1..Len(x.k) : x.k[i] = key
  ELSE 0

hasOwn(x, key) == isObject(x) /\ KeyIndex(x, key) # 0

\* x[key] for an own key of an object, undefined otherwise
Prop(x, key) == IF hasOwn(x, key) THEN x.v[KeyIndex(x, key)] ELSE Undef

RECURSIVE Reverse(_)
Reverse(seq) == IF seq = <<>> THEN <<>> ELSE Append(Reverse(Tail(seq)), Head(seq))

Last(seq) == seq[Len(seq)]

\* number <-> text, for array indices
ToStr(n) ==
  CASE n = 0 -> "0" [] n = 1 -> "1" [] n = 2 -> "2" [] n = 3 -> "3"
    [] n = 4 -> "4" [] n = 5 -> "5" [] n = 6 -> "6" [] n = 7 -> "7"
    [] n = 8 -> "8" [] n = 9 -> "9" [] OTHER -> "NaN"

ToNum(s) ==
  CASE s = "0" -> 0 [] s = "1" -> 1 [] s = "2" -> 2 [] s = "3" -> 3
    [] s = "4" -> 4 [] s = "5" -> 5 [] s = "6" -> 6 [] s = "7" -> 7
    [] s = "8" -> 8 [] s = "9" -> 9 [] OTHER -> -1

\* --------------------------------------------------- JSON Pointer engine
\* RFC 6901 escaping of one key: "~" -> "~0", "/" -> "~1"
Escape(key) ==
  CASE key = "x/y" -> "x~1y" [] key = "m~n" -> "m~0n" [] OTHER -> key

Unescape(seg) ==
  CASE seg = "x~1y" -> "x/y" [] seg = "m~0n" -> "m~n" [] OTHER -> seg

\* the pointer string of a key array
RECURSIVE Join(_)
Join(segs) ==
  IF segs = <<>> THEN <<>>
  ELSE <<"/", Escape(Head(segs))>> \o Join(Tail(segs))

\* a pointer string is returned as is (a string without a leading "/" is
\* normalised by prefixing one; an absolute URI is left alone, as the
\* 'http' test of the resolver expects)
Compile(s) ==
  IF s = <<>> \/ Head(s) = "/" \/ Head(s) = "http" THEN s ELSE <<"/">> \o s

\* the key array of a pointer string
RECURSIVE Parse(_)
Parse(s) ==
  IF s = <<>> THEN <<>>
  ELSE IF Head(s) # "/" THEN Parse(<<"/">> \o s)
  ELSE IF Len(s) = 1 \/ s[2] = "/" THEN <<"">> \o Parse(Tail(s))
  ELSE <<Unescape(s[2])>> \o Parse(Tail(Tail(s)))

RECURSIVE GetAt(_, _)
GetAt(x, segs) ==
  IF segs = <<>> THEN x
  ELSE IF isObject(x) /\ hasOwn(x, Head(segs))
       THEN GetAt(Prop(x, Head(segs)), Tail(segs))
  ELSE IF isArray(x) /\ ToNum(Head(segs)) >= 0 /\ ToNum(Head(segs)) < Len(x.v)
       THEN GetAt(x.v[ToNum(Head(segs)) + 1], Tail(segs))
  ELSE Undef

JsonPointerGet(x, pointer) == GetAt(x, Parse(pointer))

\* ------------------------------------------------- resolveSchemaReference
RefObj(pointer) == Obj(<<"$ref">>, <<Str(pointer)>>)

\* a string, or an object whose only key is a string-valued '$ref'
IsReference(reference) ==
  \/ isString(reference)
  \/ /\ isObject(reference)
     /\ Len(reference.k) = 1
     /\ hasOwn(reference, "$ref")
     /\ isString(Prop(reference, "$ref"))

IsAllOfWrapper(item) ==
  /\ isObject(item)
  /\ Len(item.k) = 1
  /\ hasOwn(item, "allOf")
  /\ isArray(Prop(item, "allOf"))

IsRemote(schemaPointer) == schemaPointer # <<>> /\ Head(schemaPointer) = "http"

Put(f, key, val) ==
  [x \in (DOMAIN f) \cup {key} |-> IF x = key THEN val ELSE f[x]]

Count(f, key) == IF key \in DOMAIN f THEN f[key] ELSE 0

\* the enumerable own properties of a source value, as Object.assign sees them
RECURSIVE IndexKeys(_)
IndexKeys(n) == IF n = 0 THEN <<>> ELSE Append(IndexKeys(n - 1), ToStr(n - 1))

OwnKeys(x) ==
  CASE isObject(x) -> x.k
    [] isArray(x) -> IndexKeys(Len(x.v))
    [] isString(x) -> IndexKeys(Len(x.p))
    [] OTHER -> <<>>

OwnVals(x) ==
  CASE isObject(x) -> x.v
    [] isArray(x) -> x.v
    [] isString(x) -> [i \in 1..Len(x.p) |-> Str(<<x.p[i]>>)]
    [] OTHER -> <<>>

SetProp(x, key, val) ==
  IF hasOwn(x, key)
  THEN [x EXCEPT !.v[KeyIndex(x, key)] = val]
  ELSE [x EXCEPT !.k = Append(@, key), !.v = Append(@, val)]

RECURSIVE AssignFrom(_, _, _, _)
AssignFrom(target, ks, vs, i) ==
  IF i > Len(ks) THEN target
  ELSE AssignFrom(SetProp(target, ks[i], vs[i]), ks, vs, i + 1)

\* Object.assign(v1, v2)
ObjectAssign(v1, v2) == AssignFrom(v1, OwnKeys(v2), OwnVals(v2), 1)

RECURSIVE Reduce(_, _)
Reduce(acc, vals) ==
  IF vals = <<>> THEN acc ELSE Reduce(ObjectAssign(acc, Head(vals)), Tail(vals))

\* .reduce((v1, v2) => Object.assign(v1, v2), {})
MergeMembers_FirstWins(vals) == Reduce(Obj(<<>>, <<>>), Reverse(vals))

MergeMembers(vals) == Reduce(Obj(<<>>, <<>>), vals)

\* hasOwn(schemaReferences, schemaPointer)
IsCached_CircularOnly(c, schemaPointer) ==
  schemaPointer \in DOMAIN c /\ c[schemaPointer].isCircular

IsCached(c, schemaPointer) == schemaPointer \in DOMAIN c

\* the answer from a cache entry: the placeholder for a circular entry
\* unless circularOK, the entry's 'schema' otherwise
CachedIsPlaceholder(entry, circularOK) == entry.isCircular /\ ~circularOK

\* schemaReferences[''] = { 'isCircular': true }: the entry has no 'schema'
RootEntry == [isCircular |-> TRUE, schema |-> Undef]

\* { 'schema': item }: the entry has no 'isCircular'
SchemaEntry(item) == [isCircular |-> FALSE, schema |-> item]

\* the cache as the members of an allOf wrapper find it: between the lookup
\* of the target and the map over its members nothing is written for
\* schemaPointer; its entry is written when the merge is complete
CacheWhileResolving_MarkInProgress(c, schemaPointer) ==
  Put(c, schemaPointer, [isCircular |-> TRUE, schema |-> Undef])

CacheWhileResolving(c, schemaPointer) == c

\* the state one call works on: the caller's cache, the requests handed to
\* the fetch collaborator, and the record of what the call did
NewCall(c, pend, comp) ==
  [cache |-> c, pending |-> pend, computed |-> comp,
   ret |-> Undef, via |-> "none", thrown |-> FALSE,
   placeholders |-> {}, fetched |-> {}, resolved |-> {}, members |-> <<>>]

RECURSIVE resolveSchemaReference(_, _, _, _, _)
RECURSIVE MapMembers(_, _, _, _, _, _)

\* item.allOf.map(object => resolveSchemaReference(object, ...)): st.members
\* collects the results; an exception ends the map
MapMembers(allOf, i, doc, st, circularOK, depth) ==
  IF i > Len(allOf) \/ st.thrown THEN st
  ELSE LET r == resolveSchemaReference(allOf[i], doc, st, circularOK, depth)
       IN MapMembers(allOf, i + 1, doc,
                     [r EXCEPT !.members = Append(st.members, r.ret)],
                     circularOK, depth)

\* depth is the number of nested calls; past MaxDepth the call stack is
\* exhausted and the RangeError unwinds every caller
resolveSchemaReference(reference, doc, st, circularOK, depth) ==
  IF depth > MaxDepth
  THEN [st EXCEPT !.thrown = TRUE, !.ret = Undef, !.via = "RangeError"]
  ELSE IF ~IsReference(reference)
  THEN [st EXCEPT !.ret = reference, !.via = "notReference"]
  ELSE
    LET schemaPointer ==
          Compile(IF isString(reference) THEN reference.p
                  ELSE Prop(reference, "$ref").p)
    IN
    IF IsCached(st.cache, schemaPointer)
    THEN IF CachedIsPlaceholder(st.cache[schemaPointer], circularOK)
         THEN [st EXCEPT !.ret = RefObj(schemaPointer), !.via = "placeholder",
                         !.placeholders = @ \cup {schemaPointer}]
         ELSE [st EXCEPT !.ret = st.cache[schemaPointer].schema,
                         !.via = "cached"]
    ELSE IF schemaPointer = <<>>
    THEN [st EXCEPT
            !.cache = Put(@, <<>>, RootEntry),
            !.ret = IF circularOK THEN doc ELSE RefObj(<<>>),
            !.via = IF circularOK THEN "root" ELSE "placeholder",
            !.placeholders = IF circularOK THEN @ ELSE @ \cup {<<>>}]
    ELSE IF IsRemote(schemaPointer)
    THEN [st EXCEPT
            !.pending = Put(@, schemaPointer, Count(@, schemaPointer) + 1),
            !.fetched = @ \cup {schemaPointer},
            !.ret = Undef, !.via = "remote"]
    ELSE
      LET item == JsonPointerGet(doc, schemaPointer)
          st1 == [st EXCEPT
                    !.computed = Put(@, schemaPointer, Count(@, schemaPointer) + 1),
                    !.resolved = @ \cup {schemaPointer}]
      IN
      IF ~IsAllOfWrapper(item)
      THEN [st1 EXCEPT
              !.cache = Put(@, schemaPointer, SchemaEntry(item)),
              !.ret = item, !.via = "verbatim"]
      ELSE
        LET r == MapMembers(Prop(item, "allOf").v, 1, doc,
                            [st1 EXCEPT
                               !.members = <<>>,
                               !.cache = CacheWhileResolving(@, schemaPointer)],
                            circularOK, depth + 1)
            targetSchema == MergeMembers(r.members)
        IN
        IF r.thrown THEN [r EXCEPT !.members = st.members]
        ELSE [r EXCEPT
                !.cache = Put(@, schemaPointer, SchemaEntry(targetSchema)),
                !.ret = targetSchema, !.via = "merged",
                !.members = st.members]

\* ------------------------------------------------ resolver: the inputs
RemoteUrl == <<"http", ":", "/", "/", "host">>
EmptyObj == Obj(<<>>, <<>>)
RefTo(segs) == RefObj(Join(segs))
AllOf(members) == Obj(<<"allOf">>, <<Arr(members)>>)

\* the example of the allOf flattening, a wrapper of wrappers and a key
\* conflict between members
DocFlat ==
  Obj(<<"defs", "w", "w2">>,
      <<Obj(<<"b", "c">>,
            <<Obj(<<"b">>, <<Num("2")>>),
              Obj(<<"a", "c">>, <<Num("3"), Num("4")>>)>>),
        AllOf(<<Obj(<<"a">>, <<Num("1")>>), RefTo(<<"defs", "b">>)>>),
        AllOf(<<RefTo(<<"w">>), RefTo(<<"defs", "c">>)>>)>>)

\* two allOf wrappers that reference each other
DocCycle ==
  Obj(<<"A", "B">>,
      <<AllOf(<<RefTo(<<"B">>)>>), AllOf(<<RefTo(<<"A">>)>>)>>)

\* a wrapper and a plain reference object that reference each other
DocMixed ==
  Obj(<<"A", "B">>, <<AllOf(<<RefTo(<<"B">>)>>), RefTo(<<"A">>)>>)

\* two plain reference objects that reference each other
DocPlain ==
  Obj(<<"A", "B">>, <<RefTo(<<"B">>), RefTo(<<"A">>)>>)

\* wrappers whose members reference the root and a remote document
DocRoot ==
  Obj(<<"r", "h", "c">>,
      <<AllOf(<<RefObj(<<>>), Obj(<<"c">>, <<Num("3")>>)>>),
        AllOf(<<RefObj(RemoteUrl), Obj(<<"d">>, <<Num("4")>>)>>),
        Num("0")>>)

Schemas == {DocFlat, DocCycle, DocMixed, DocPlain, DocRoot}

\* the references a caller passes: pointer strings with and without the
\* leading "/", {$ref} objects, and values that are no reference
Both(segs) == {Str(Join(segs)), RefTo(segs)}

References(doc) ==
  CASE doc = DocFlat ->
         Both(<<"w">>) \cup Both(<<"defs", "b">>)
           \cup {Str(<<"w2">>), Str(<<"/", "nope">>), Obj(<<"a">>, <<Num("1")>>)}
    [] doc = DocRoot ->
         Both(<<>>) \cup {Str(RemoteUrl), RefObj(RemoteUrl), Str(<<"/", "r">>),
                          Str(<<"/", "h">>)}
    [] OTHER -> Both(<<"A">>) \cup {Str(<<"B">>), Str(<<>>)}

\* what the fetch collaborator may answer
Responses == {Obj(<<"e">>, <<Num("5")>>), Obj(<<"e">>, <<Num("6")>>)}

PointerOf(reference) ==
  Compile(IF isString(reference) THEN reference.p ELSE Prop(reference, "$ref").p)

NoCall ==
  [kind |-> "none", reference |-> Undef, pointer |-> <<>>, circularOK |-> FALSE,
   ret |-> Undef, via |-> "none", thrown |-> FALSE, placeholders |-> {},
   fetched |-> {}, resolved |-> {}]

InitResolver ==
  /\ schema \in Schemas
  /\ cache = <<>>
  /\ pending = <<>>
  /\ computed = <<>>
  /\ ncalls = 0
  /\ last = NoCall

\* one call of resolveSchemaReference by a caller, on the shared cache
Resolve(reference, circularOK) ==
  /\ ncalls < MaxCalls
  /\ LET r == resolveSchemaReference(reference, schema,
                                     NewCall(cache, pending, computed),
                                     circularOK, 1)
     IN /\ cache' = r.cache
        /\ pending' = r.pending
        /\ computed' = r.computed
        /\ last' = [kind |-> "call", reference |-> reference,
                    pointer |-> IF IsReference(reference)
                                THEN PointerOf(reference) ELSE <<>>,
                    circularOK |-> circularOK, ret |-> r.ret, via |-> r.via,
                    thrown |-> r.thrown, placeholders |-> r.placeholders,
                    fetched |-> r.fetched, resolved |-> r.resolved]
  /\ ncalls' = ncalls + 1
  /\ UNCHANGED <<schema, layoutVars, walkVars, requiredVars>>

\* the subscribe callback of one outstanding http.get
FetchResponse(schemaPointer, response) ==
  /\ Count(pending, schemaPointer) > 0
  /\ pending' = [pending EXCEPT ![schemaPointer] = @ - 1]
  /\ cache' = Put(cache, schemaPointer, SchemaEntry(response))
  /\ last' = [NoCall EXCEPT !.kind = "response", !.pointer = schemaPointer,
                            !.ret = response]
  /\ UNCHANGED <<schema, computed, ncalls, layoutVars, walkVars, requiredVars>>

ResolveCall ==
  \E reference \in References(schema), circularOK \in BOOLEAN :
    Resolve(reference, circularOK)

FetchArrives ==
  \E schemaPointer \in DOMAIN pending, response \in Responses :
    FetchResponse(schemaPointer, response)

NotMapped == [done |-> FALSE, out |-> <<>>, inp |-> <<>>, calls |-> <<>>]
NotWalked == [done |-> FALSE, sub |-> <<>>, visits |-> <<>>]

IdleResolver ==
  /\ schema = Undef /\ cache = <<>> /\ pending = <<>> /\ computed = <<>>
  /\ ncalls = 0 /\ last = NoCall
IdleLayout == layout = Arr(<<>>) /\ visitor = <<>> /\ mapped = NotMapped
IdleWalk == wdoc = Undef /\ wargs = <<>> /\ walked = NotWalked
IdleRequired == rschema = Undef /\ rpointer = <<>> /\ required = "none"

Init == InitResolver /\ IdleLayout /\ IdleWalk /\ IdleRequired
Next == ResolveCall \/ FetchArrives
Spec == Init /\ [][Next]_vars

\* ================================================================ claims
CallStep == ncalls' = ncalls + 1 /\ last'.kind = "call"
CallOn(schemaPointer) ==
  CallStep /\ IsReference(last'.reference) /\ last'.pointer = schemaPointer
IsLocal(schemaPointer) == schemaPointer # <<>> /\ ~IsRemote(schemaPointer)

\* C1: once cache[P] holds a non-circular 'schema' for a non-root local
\* pointer P, every later call resolving P (as a string or as {$ref: P})
\* answers from the cache with that very value, computes nothing for P
\* again, and no later step overwrites or removes cache[P].
C1_Memoization ==
  [][\A P \in DOMAIN cache :
       (IsLocal(P) /\ ~cache[P].isCircular) =>
         /\ P \in DOMAIN cache'
         /\ cache'[P] = cache[P]
         /\ Count(computed', P) = Count(computed, P)
         /\ CallOn(P) => (last'.via = "cached" /\ last'.ret = cache[P].schema)]_vars

\* a second call for a merged pointer, passed as {$ref: P}, answered from the cache
C1_Witness ==
  /\ last.kind = "call" /\ last.via = "cached"
  /\ isObject(last.reference)
  /\ IsLocal(last.pointer)
  /\ IsAllOfWrapper(JsonPointerGet(schema, last.pointer))
  /\ Count(computed, last.pointer) = 1

\* C2 (as claimed): every call with the root pointer leaves cache['']
\* circular and returns the full document when circularOK, the placeholder
\* {$ref: ''} otherwise.
C2_RootAlwaysShortCircuited ==
  (last.kind = "call" /\ IsReference(last.reference) /\ last.pointer = <<>>) =>
     /\ <<>> \in DOMAIN cache
     /\ cache[<<>>].isCircular
     /\ last.ret = IF last.circularOK THEN schema ELSE RefObj(<<>>)

\* C4 (as claimed): a lookup of a remote pointer made while a fetch for it
\* is outstanding issues no second fetch; the response is installed as
\* cache[P].schema, and a later lookup returns it from the cache.
C4_RemoteFetchedOnce ==
  [][/\ \A P \in DOMAIN pending :
          (pending[P] > 0 /\ CallOn(P)) => pending'[P] = pending[P]
     /\ \A P \in DOMAIN pending :
          (last'.kind = "response" /\ last'.pointer = P /\ pending'[P] < pending[P])
             => (P \in DOMAIN cache' /\ cache'[P].schema = last'.ret)
     /\ \A P \in DOMAIN cache :
          (IsRemote(P) /\ CallOn(P)) => last'.ret = cache[P].schema]_vars


\* C3: a call that resolves a local pointer P whose target is an allOf
\* wrapper returns a new object equal to the left-to-right shallow merge of
\* the resolutions of the allOf members (an inline member as is, a {$ref}
\* member by its resolved target, later keys winning), stores that object
\* as cache[P].schema, and leaves every member pointer it resolved cached.
RECURSIVE MeetsRoot(_, _, _, _)
MeetsRoot(m, doc, before, n) ==
  /\ IsReference(m)
  /\ LET Q == PointerOf(m)
     IN \/ Q = <<>>
        \/ /\ n > 0 /\ IsLocal(Q) /\ Q \notin DOMAIN before
           /\ IsAllOfWrapper(JsonPointerGet(doc, Q))
           /\ \E i \in 1..Len(Prop(JsonPointerGet(doc, Q), "allOf").v) :
                MeetsRoot(Prop(JsonPointerGet(doc, Q), "allOf").v[i], doc, before, n - 1)

\* what member i of the wrapper stands for: itself when inline; for a
\* reference, the target recorded in the cache after the call; for the root,
\* the document the first time the root is met with circularOK, its
\* placeholder without circularOK; for a remote pointer, the installed
\* response, if any
MemberResolution(members, i, doc, before, after, circularOK) ==
  LET m == members[i]
      Q == PointerOf(m)
  IN IF ~IsReference(m) THEN m
     ELSE IF Q = <<>>
     THEN IF ~circularOK THEN RefObj(<<>>)
          ELSE IF <<>> \in DOMAIN before
                  \/ \E j \in 1..(i - 1) : MeetsRoot(members[j], doc, before, MaxDepth)
               THEN Undef ELSE doc
     ELSE IF IsRemote(Q)
     THEN IF Q \in DOMAIN before THEN before[Q].schema ELSE Undef
     ELSE IF Q \in DOMAIN after THEN after[Q].schema ELSE Null

RECURSIVE LeftToRightMerge(_, _)
LeftToRightMerge(acc, vals) ==
  IF vals = <<>> THEN acc
  ELSE LET src == Head(vals)
           keys == IF isObject(src) THEN src.k ELSE <<>>
           added == SelectSeq(keys, LAMBDA key : ~hasOwn(acc, key))
           all == acc.k \o added
       IN LeftToRightMerge(
            Obj(all, [n \in 1..Len(all) |->
                        IF hasOwn(src, all[n]) THEN Prop(src, all[n])
                        ELSE Prop(acc, all[n])]),
            Tail(vals))

RefersTo(item, schemaPointer) ==
  \/ IsReference(item) /\ isObject(item) /\ PointerOf(item) = schemaPointer
  \/ /\ IsAllOfWrapper(item)
     /\ \E i \in 1..Len(Prop(item, "allOf").v) :
          LET m == Prop(item, "allOf").v[i]
          IN IsReference(m) /\ PointerOf(m) = schemaPointer

TopPointers(doc) == {Join(<<doc.k[i]>>) : i \in 1..Len(doc.k)}

CyclePair(doc, A, B) ==
  /\ A # B /\ IsLocal(A) /\ IsLocal(B)
  /\ RefersTo(JsonPointerGet(doc, A), B)
  /\ RefersTo(JsonPointerGet(doc, B), A)

FirstCallOnCycle ==
  /\ ncalls = 1 /\ last.kind = "call" /\ IsReference(last.reference)
  /\ \E B \in TopPointers(schema) : CyclePair(schema, last.pointer, B)

C10_DistinctCycleNotCaught ==
  FirstCallOnCycle =>
    /\ \A P \in DOMAIN cache : ~cache[P].isCircular
    /\ last.placeholders = {} /\ last.via # "placeholder"
    /\ (\A P \in TopPointers(schema) :
           CyclePair(schema, last.pointer, P) =>
             (IsAllOfWrapper(JsonPointerGet(schema, last.pointer))
                /\ IsAllOfWrapper(JsonPointerGet(schema, P))))
         => /\ last.thrown
            /\ last.pointer \notin DOMAIN cache
            /\ Count(computed, last.pointer) > 1

\* A and B are allOf wrappers of each other: the call on A ran out of stack
C10_Witness ==
  /\ FirstCallOnCycle
  /\ schema = DocCycle
  /\ last.thrown
  /\ cache = <<>>


\* ================================================================ mapLayout
\* The visitor fn is a table from the kind of element it is handed to what
\* it returns: the element itself ("keep"), undefined ("drop"), null, an
\* array of two elements ("fan") or an empty array ("none"). It writes to
\* none of its arguments; rootLayout is only handed on to it, and index and
\* path are recorded with each call.
Kinds == {"a", "b", "c", "node"}
Returns == {"keep", "drop", "null", "fan", "none"}

KindOf(item) == IF isString(item) THEN Head(item.p) ELSE "node"
Twin(item) ==
  IF isString(item) THEN Str(item.p \o <<"'">>) ELSE Str(<<"node", "'">>)

Visit(fn, item) ==
  CASE fn[KindOf(item)] = "keep" -> item
    [] fn[KindOf(item)] = "drop" -> Undef
    [] fn[KindOf(item)] = "null" -> Null
    [] fn[KindOf(item)] = "fan" -> Arr(<<item, Twin(item)>>)
    [] OTHER -> Arr(<<>>)

\* newLayout.concat(newItem): an array argument is spread, anything else
\* (null included) is appended
Concat(newLayout, newItem) ==
  IF isArray(newItem) THEN newLayout \o newItem.v ELSE Append(newLayout, newItem)

\* the update of indexPad after the visitor returned newItem
NextIndexPad_KeepOnDrop(indexPad, newItem) ==
  IF newItem = Undef THEN indexPad
  ELSE IF isArray(newItem) THEN indexPad + Len(newItem.v) - 1
  ELSE indexPad

NextIndexPad(indexPad, newItem) ==
  IF newItem = Undef THEN indexPad - 1
  ELSE IF isArray(newItem) THEN indexPad + Len(newItem.v) - 1
  ELSE indexPad

\* the key whose array the walker recurses into: 'items' first, else 'tabs'
ChildKey(newItem) ==
  IF ~isObject(newItem) THEN ""
  ELSE IF isArray(Prop(newItem, "items")) THEN "items"
  ELSE IF isArray(Prop(newItem, "tabs")) THEN "tabs"
  ELSE ""

RECURSIVE mapLayout(_, _, _)
RECURSIVE MapEach(_, _, _, _, _)

\* one turn of _.forEach(layout, (item, index) => ...). acc.inp collects the
\* elements of the input array as the call leaves them: newItem is the input
\* element itself, so the assignment to newItem.items / newItem.tabs writes
\* to the input element. acc.calls records every call of the visitor, with
\* the number of elements that were in newLayout when it was made (pos) and
\* the number it contributed (n).
MapEach(items, index, fn, path, acc) ==
  IF index >= Len(items) THEN acc
  ELSE
    LET item == items[index + 1]
        realIndex == index + acc.indexPad
        newPath == path \o <<"/", ToStr(realIndex)>>
        key == ChildKey(item)
        sub == IF key = "" THEN [out |-> <<>>, inp |-> <<>>, calls |-> <<>>]
               ELSE mapLayout(Prop(item, key).v, fn, newPath \o <<"/", key>>)
        newItem == IF key = "" THEN item ELSE SetProp(item, key, Arr(sub.out))
        result == Visit(fn, newItem)
        newLayout == IF result = Undef THEN acc.newLayout
                     ELSE Concat(acc.newLayout, result)
    IN MapEach(items, index + 1, fn, path,
         [newLayout |-> newLayout,
          indexPad |-> NextIndexPad(acc.indexPad, result),
          inp |-> Append(acc.inp, newItem),
          calls |-> acc.calls \o sub.calls \o
                    <<[path |-> path, realIndex |-> realIndex,
                       newPath |-> newPath, result |-> result,
                       pos |-> Len(acc.newLayout),
                       n |-> Len(newLayout) - Len(acc.newLayout)]>>])

mapLayout(items, fn, path) ==
  LET r == MapEach(items, 0, fn, path,
                   [newLayout |-> <<>>, indexPad |-> 0, inp |-> <<>>, calls |-> <<>>])
  IN [out |-> r.newLayout, inp |-> r.inp, calls |-> r.calls]

La == Str(<<"a">>)
Lb == Str(<<"b">>)
Lc == Str(<<"c">>)
Node(key, children) ==
  Obj(<<"type", key>>, <<Str(<<"section">>), Arr(children)>>)

Layouts ==
  { Arr(<<La, Lb, Lc>>),
    Arr(<<La, Node("items", <<Lb, Lc>>)>>),
    Arr(<<Node("tabs", <<La, Node("items", <<Lb>>)>>), Lc>>),
    Arr(<<Obj(<<"items", "tabs">>, <<Arr(<<La>>), Arr(<<Lb>>)>>), Lc>>),
    Arr(<<Obj(<<"items", "tabs">>, <<Str(<<"x">>), Arr(<<La, Lb>>)>>)>>),
    Arr(<<Lc, Lb, La, Lc>>) }

InitLayout ==
  /\ layout \in Layouts
  /\ visitor \in [Kinds -> Returns]
  /\ mapped = NotMapped

\* mapLayout(layout, fn) with the default rootLayout and path
MapLayout ==
  /\ ~mapped.done
  /\ LET r == mapLayout(layout.v, visitor, <<>>)
     IN mapped' = [done |-> TRUE, out |-> r.out, inp |-> r.inp, calls |-> r.calls]
  /\ UNCHANGED <<layout, visitor, resolverVars, walkVars, requiredVars>>

InitL == IdleResolver /\ InitLayout /\ IdleWalk /\ IdleRequired
NextL == MapLayout
SpecLayout == InitL /\ [][NextL]_vars

\* C5 (as claimed): at every level, each output element sits at the index
\* that was passed as realIndex to the visitor call that produced it, and
\* that call's path is the parent path + '/' + that index; a 3-element layout
\* whose visitor deletes index 1 and expands index 2 into two elements gives
\* 3 elements, the third reported with path '/2'.
ExampleRun ==
  /\ mapped.done
  /\ layout = Arr(<<La, Lb, Lc>>)
  /\ visitor["a"] = "keep" /\ visitor["b"] = "drop" /\ visitor["c"] = "fan"

TopCalls == SelectSeq(mapped.calls, LAMBDA c : c.path = <<>>)

C5_EveryElementAtItsRealIndex ==
  /\ \A i \in 1..Len(mapped.calls) :
       LET c == mapped.calls[i]
       IN \A j \in c.pos..(c.pos + c.n - 1) :
            c.realIndex = j /\ c.newPath = c.path \o <<"/", ToStr(j)>>
  /\ ExampleRun =>
       /\ Len(mapped.out) = 3
       /\ \E i \in 1..Len(TopCalls) :
            /\ TopCalls[i].pos + TopCalls[i].n = 3
            /\ TopCalls[i].n > 0
            /\ TopCalls[i].newPath = <<"/", "2">>

\* C5 (amended): at every level, realIndex of a visitor call is the number
\* of elements output before it, and its path is the parent path + '/' +
\* realIndex; the elements the call contributes sit at realIndex,
\* realIndex + 1, ... in the order returned. In the example the output has
\* 3 elements and the third was reported with path '/1'.
C5_FirstElementAtRealIndex ==
  /\ \A i \in 1..Len(mapped.calls) :
       LET c == mapped.calls[i]
       IN /\ c.realIndex = c.pos
          /\ c.newPath = c.path \o <<"/", ToStr(c.realIndex)>>
  /\ \A i \in 1..Len(TopCalls) :
       LET c == TopCalls[i]
       IN /\ c.pos + c.n <= Len(mapped.out)
          /\ c.n > 0 =>
               SubSeq(mapped.out, c.realIndex + 1, c.realIndex + c.n)
                 = IF isArray(c.result) THEN c.result.v ELSE <<c.result>>
  /\ ExampleRun =>
       /\ mapped.out = <<La, Lc, Twin(Lc)>>
       /\ TopCalls[3].newPath = <<"/", "1">>
       /\ TopCalls[3].pos + TopCalls[3].n = 3

\* the example: delete index 1, expand index 2
C5_Witness == ExampleRun /\ Len(mapped.out) = 3 /\ Len(TopCalls) = 3

\* C6 (as claimed): after mapLayout returns, the input sequence and every
\* input element are as before the call.
C6_InputUnchanged == mapped.done => mapped.inp = layout.v

\* C9 (as claimed): for a visitor that returns only null, undefined or
\* single nodes, an element for which it returns null is left out, the
\* sibling indices after it are corrected, and the output holds every
\* non-null result and no null entry.
NoArrays == \A kind \in Kinds : visitor[kind] \in {"keep", "drop", "null"}

C9_NullIsSkipped ==
  (mapped.done /\ NoArrays) =>
     /\ \A i \in 1..Len(mapped.out) : mapped.out[i] # Null
     /\ mapped.out = SelectSeq([i \in 1..Len(TopCalls) |-> TopCalls[i].result],
                               LAMBDA x : x # Null /\ x # Undef)
     /\ \A i \in 1..Len(TopCalls) :
          TopCalls[i].realIndex =
            Len(SelectSeq([j \in 1..(i - 1) |-> TopCalls[j].result],
                          LAMBDA x : x # Null /\ x # Undef))


\* =============================================================== forOwnDeep
False == [t |-> "boolean", k |-> <<>>, v |-> <<>>, p |-> <<"false">>]

\* !rootObject
Falsy(x) ==
  \/ x.t \in {"undefined", "null"}
  \/ x = False
  \/ x.t = "number" /\ x.p = <<"0">>
  \/ x.t = "string" /\ x.p = <<>>

\* the keys handed to the callback, in the order of _.forEach / _.forOwn
ForwardKeys(object) ==
  IF isArray(object) THEN IndexKeys(Len(object.v))
  ELSE IF isObject(object) THEN object.k
  ELSE <<>>

\* _.forEachRight / _.forOwnRight when bottomUp
IterationKeys_AlwaysForward(object, bottomUp) == ForwardKeys(object)

IterationKeys(object, bottomUp) ==
  IF bottomUp THEN Reverse(ForwardKeys(object)) ELSE ForwardKeys(object)

ChildOf(object, key) ==
  IF isArray(object) THEN object.v[ToNum(key) + 1] ELSE Prop(object, key)

RECURSIVE forOwnDeep(_, _, _, _)
RECURSIVE ForEachKey(_, _, _, _, _)

\* forFn(object, (value, key) => forOwnDeep(value, ...)): the callback
\* returns what forOwnDeep returns, the value itself, and lodash ends an
\* iteration whose callback returns false
ForEachKey(object, keys, rootObject, jsonPointer, bottomUp) ==
  IF keys = <<>> THEN <<>>
  ELSE LET value == ChildOf(object, Head(keys))
           here == forOwnDeep(value, rootObject,
                              jsonPointer \o <<"/", Escape(Head(keys))>>, bottomUp)
       IN IF value = False THEN here
          ELSE here \o ForEachKey(object, Tail(keys), rootObject, jsonPointer, bottomUp)

\* the sequence of visitor calls of forOwnDeep(object, fn, rootObject,
\* jsonPointer, bottomUp), each with its arguments (value, key, pointer)
forOwnDeep(object, rootObject, jsonPointer, bottomUp) ==
  LET isRoot == Falsy(rootObject)
      root == IF isRoot THEN object ELSE rootObject
      parsed == Parse(jsonPointer)
      currentKey == IF parsed = <<>> THEN "undefined" ELSE Last(parsed)
      call == <<[value |-> object, key |-> currentKey, pointer |-> jsonPointer]>>
      below == ForEachKey(object, IterationKeys(object, bottomUp), root,
                          jsonPointer, bottomUp)
  IN (IF ~isRoot /\ ~bottomUp THEN call ELSE <<>>)
       \o below
       \o (IF ~isRoot /\ bottomUp THEN call ELSE <<>>)

WalkKeys == {"a", "c", "x/y"}
WalkKids ==
  { Num("1"), Num("2"), False, Obj(<<"b">>, <<Num("1")>>),
    Arr(<<Num("1"), False, Obj(<<"m~n">>, <<Num("2")>>)>>) }

WalkDocs ==
  { Obj(<<k1, k2>>, <<v1, v2>>) :
      k1 \in WalkKeys, k2 \in WalkKeys \ {"a"}, v1 \in WalkKids, v2 \in WalkKids }
    \ { Obj(<<k, k>>, <<v1, v2>>) : k \in WalkKeys, v1 \in WalkKids, v2 \in WalkKids }

InitWalk ==
  /\ wdoc \in WalkDocs
  /\ wargs \in [bottomUp : BOOLEAN]
  /\ walked = NotWalked

\* forOwnDeep(doc, fn, null, '', bottomUp): a call on a root
Walk ==
  /\ ~walked.done
  /\ walked' = [done |-> TRUE, sub |-> <<>>,
                visits |-> forOwnDeep(wdoc, Null, <<>>, wargs.bottomUp)]
  /\ UNCHANGED <<wdoc, wargs, resolverVars, layoutVars, requiredVars>>

\* forOwnDeep(doc[key], fn, doc, '/key', bottomUp): a call on a sub-object
WalkSub(key) ==
  /\ ~walked.done
  /\ hasOwn(wdoc, key)
  /\ walked' = [done |-> TRUE, sub |-> <<key>>,
                visits |-> forOwnDeep(Prop(wdoc, key), wdoc, Join(<<key>>),
                                      wargs.bottomUp)]
  /\ UNCHANGED <<wdoc, wargs, resolverVars, layoutVars, requiredVars>>

WalkAnySub == \E key \in WalkKeys : WalkSub(key)

InitW == IdleResolver /\ IdleLayout /\ InitWalk /\ IdleRequired
NextW == Walk \/ WalkAnySub
SpecWalk == InitW /\ [][NextW]_vars

\* ---- the statement of the traversal order
\* the paths (key arrays) of all nodes below a node
RECURSIVE PathsBelow(_)
PathsBelow(node) ==
  LET keys == ForwardKeys(node)
  IN UNION { {<<keys[i]>>} \cup
               { <<keys[i]>> \o q : q \in PathsBelow(ChildOf(node, keys[i])) } :
             i \in 1..Len(keys) }

IsPrefix(p1, p2) == Len(p1) <= Len(p2) /\ SubSeq(p2, 1, Len(p1)) = p1
Parent(path) == SubSeq(path, 1, Len(path) - 1)
Position(seq, x) ==
  IF \E i \in 1..Len(seq) : seq[i] = x
  THEN CHOOSE i \in 1..Len(seq) : seq[i] = x ELSE 0

VisitedPaths == [i \in 1..Len(walked.visits) |-> Parse(walked.visits[i].pointer)]
VisitAt(path) == Position(VisitedPaths, path)
RootCall == walked.done /\ walked.sub = <<>>

\* every call is on a node of the document, with its own key and value,
\* and no node is visited twice
VisitsAreNodes ==
  /\ \A i \in 1..Len(VisitedPaths) :
       /\ VisitedPaths[i] \in PathsBelow(wdoc)
       /\ walked.visits[i].value = GetAt(wdoc, VisitedPaths[i])
       /\ walked.visits[i].key = Last(VisitedPaths[i])
       /\ walked.visits[i].pointer = Join(VisitedPaths[i])
  /\ \A i, j \in 1..Len(VisitedPaths) : VisitedPaths[i] = VisitedPaths[j] => i = j

\* a node is visited before (top-down) or after (bottom-up) its descendants
NodeVersusDescendants ==
  \A p1, p2 \in PathsBelow(wdoc) :
    (p1 # p2 /\ IsPrefix(p1, p2) /\ VisitAt(p1) # 0 /\ VisitAt(p2) # 0) =>
       IF wargs.bottomUp THEN VisitAt(p2) < VisitAt(p1) ELSE VisitAt(p1) < VisitAt(p2)

\* the subtrees of two sibling keys: with reversed = FALSE the subtree of the
\* key inserted first is visited first, with reversed = TRUE it is visited last
SiblingOrder(reversed) ==
  \A p1, p2 \in PathsBelow(wdoc) :
    \A n \in 1..Len(p1) :
      (/\ n <= Len(p2) /\ SubSeq(p1, 1, n - 1) = SubSeq(p2, 1, n - 1)
       /\ p1[n] # p2[n]
       /\ VisitAt(p1) # 0 /\ VisitAt(p2) # 0
       /\ LET keys == ForwardKeys(GetAt(wdoc, SubSeq(p1, 1, n - 1)))
          IN Position(keys, p1[n]) < Position(keys, p2[n]))
      => IF reversed THEN VisitAt(p2) < VisitAt(p1) ELSE VisitAt(p1) < VisitAt(p2)

ExampleDoc == Obj(<<"a", "c">>, <<Obj(<<"b">>, <<Num("1")>>), Num("2")>>)
Pointers(visits) == [i \in 1..Len(visits) |-> visits[i].pointer]

Reached(path) ==
  LET parent == Parent(path)
      keys == IterationKeys(GetAt(wdoc, parent), wargs.bottomUp)
  IN /\ parent = <<>> \/ VisitAt(parent) # 0
     /\ \A i \in 1..(Position(keys, Last(path)) - 1) :
          GetAt(wdoc, Append(parent, keys[i])) # False

TypeError == [t |-> "TypeError", k |-> <<>>, v |-> <<>>, p |-> <<>>]

\* x[key] as JavaScript evaluates it
Index(x, key) ==
  IF x = TypeError \/ x.t \in {"undefined", "null"} THEN TypeError
  ELSE Prop(x, key)

\* the sub-schema that describes the data at a data pointer: 'properties'
\* for a key of an object, 'items' for an element of an array; nothing when
\* the schema does not describe the place
RECURSIVE JsonPointerGetSchema(_, _)
JsonPointerGetSchema(sch, segs) ==
  IF segs = <<>> THEN sch
  ELSE IF hasOwn(Prop(sch, "properties"), Head(segs))
       THEN JsonPointerGetSchema(Prop(Prop(sch, "properties"), Head(segs)), Tail(segs))
  ELSE IF (Head(segs) = "-" \/ ToNum(Head(segs)) >= 0) /\ isObject(Prop(sch, "items"))
       THEN JsonPointerGetSchema(Prop(sch, "items"), Tail(segs))
  ELSE Undef

\* requiredList.indexOf(keyName) !== -1
IndexOfFound(requiredList, keyName) ==
  \E i \in 1..Len(requiredList.v) : requiredList.v[i] = Str(<<keyName>>)

\* the required list the pointer selects
RequiredList(sch, dataPointerArray) ==
  IF Len(dataPointerArray) > 1
  THEN LET listPointerArray == SubSeq(dataPointerArray, 1, Len(dataPointerArray) - 1)
       IN IF Last(listPointerArray) = "-"
          THEN Index(Index(JsonPointerGetSchema(sch,
                         SubSeq(listPointerArray, 1, Len(listPointerArray) - 1)),
                         "items"), "required")
          ELSE Index(JsonPointerGetSchema(sch, listPointerArray), "required")
  ELSE Index(sch, "required")

\* "true", "false", or "TypeError" when the call ends by an exception
isInputRequired(sch, pointer) ==
  IF ~isObject(sch) THEN "false"
  ELSE LET dataPointerArray == Parse(pointer)
       IN IF Len(dataPointerArray) = 0 THEN "false"
          ELSE LET keyName == Last(dataPointerArray)
                   requiredList == RequiredList(sch, dataPointerArray)
               IN IF requiredList = TypeError THEN "TypeError"
                  ELSE IF isArray(requiredList)
                  THEN IF IndexOfFound(requiredList, keyName) THEN "true" ELSE "false"
                  ELSE "false"

StrList(keys) == Arr([i \in 1..Len(keys) |-> Str(<<keys[i]>>)])
Typed(type) == Obj(<<"type">>, <<Str(<<type>>)>>)

PersonSchema ==
  Obj(<<"type", "required", "properties">>,
      <<Str(<<"object">>), StrList(<<"name">>),
        Obj(<<"name", "addr", "list", "plain", "tags">>,
            <<Typed("string"),
              Obj(<<"type", "required", "properties">>,
                  <<Str(<<"object">>), StrList(<<"street", "x">>),
                    Obj(<<"street">>, <<Typed("string")>>)>>),
              Obj(<<"type", "items">>,
                  <<Str(<<"array">>),
                    Obj(<<"type", "required">>,
                        <<Str(<<"object">>), StrList(<<"x">>)>>)>>),
              Typed("object"),
              Obj(<<"type", "items">>, <<Str(<<"array">>), Typed("string")>>)>>)>>)

RequiredSchemas ==
  { PersonSchema,
    Obj(<<"required">>, <<Str(<<"name">>)>>),
    Obj(<<"type", "items">>,
        <<Str(<<"array">>), Obj(<<"required">>, <<StrList(<<"x", "name">>)>>)>>),
    Obj(<<"properties">>, <<Obj(<<"list">>, <<Typed("array")>>)>>),
    Arr(<<Str(<<"name">>)>>),
    Str(<<"name">>) }

RequiredPointers ==
  { <<>>, <<"/", "name">>, <<"name">>, <<"/", "other">>, <<"/", "Name">>,
    <<"/", "nam">>, <<"/", "addr", "/", "street">>, <<"/", "addr", "/", "zip">>,
    <<"/", "list", "/", "-", "/", "x">>, <<"/", "list", "/", "-", "/", "y">>,
    <<"/", "tags", "/", "-", "/", "x">>, <<"/", "plain", "/", "-", "/", "x">>,
    <<"/", "plain", "/", "x">>, <<"/", "nope", "/", "x">>,
    <<"/", "-", "/", "x">>, <<"/", "list", "/", "x">> }

InitRequired ==
  /\ rschema \in RequiredSchemas
  /\ rpointer \in RequiredPointers
  /\ required = "none"

IsInputRequired ==
  /\ required = "none"
  /\ required' = isInputRequired(rschema, rpointer)
  /\ UNCHANGED <<rschema, rpointer, resolverVars, layoutVars, walkVars>>

InitR == IdleResolver /\ IdleLayout /\ IdleWalk /\ InitRequired
NextR == IsInputRequired
SpecRequired == InitR /\ [][NextR]_vars

\* ---- the required list as the claim selects it, absent where the schema
\* has nothing at the place
SoftGet(x, key) == IF isObject(x) /\ hasOwn(x, key) THEN Prop(x, key) ELSE Undef

SelectedList(sch, segs) ==
  IF Len(segs) = 1 THEN SoftGet(sch, "required")
  ELSE IF segs[Len(segs) - 1] = "-"
  THEN SoftGet(SoftGet(JsonPointerGetSchema(sch, SubSeq(segs, 1, Len(segs) - 2)),
                       "items"), "required")
  ELSE SoftGet(JsonPointerGetSchema(sch, SubSeq(segs, 1, Len(segs) - 1)), "required")

\* C8 (as claimed): for every object schema and every data pointer the call
\* returns a boolean and never fails; it returns true exactly when the
\* required list the pointer selects is an array containing the last
\* segment, false in every other case.
C8_TotalAndExact ==
  (required # "none" /\ isObject(rschema)) =>
     /\ required \in {"true", "false"}
     /\ (required = "true") <=>
          /\ Parse(rpointer) # <<>>
          /\ isArray(SelectedList(rschema, Parse(rpointer)))
          /\ \E i \in 1..Len(SelectedList(rschema, Parse(rpointer)).v) :
               SelectedList(rschema, Parse(rpointer)).v[i]
                 = Str(<<Last(Parse(rpointer))>>)

====
